---- MODULE Spec2Model ----
(***************************************************************************)
(* Hash tagging analysis plugin of plaso (plaso/analysis/hash_tagging.py): *)
(* the ingestion/report thread (ExamineEvent, CompileReport) and the       *)
(* HashAnalyzer worker thread, communicating over hash_queue and           *)
(* hash_analysis_queue.                                                    *)
(***************************************************************************)
EXTENDS Integers, Sequences, FiniteSets, TLC

\* ------------------------------------------------------------------ bounds
\* Number of ExamineEvent calls made on one plugin.
MaxEvents == 2
\* Largest hashes_per_batch the analyzer is constructed with.
MaxBatch == 2

\* None: a missing attribute, a missing path specification.
None == 0
\* Hash values and path specifications are opaque values the program only
\* compares; they are numbered in the order in which events bring them, so
\* EstimateTimeRemaining is applied to at most MaxQueued hashes on hash_queue,
\* MaxWait seconds of wait_after_analysis, MaxAnalyses analyses performed and
\* MaxSeconds seconds spent analyzing.
MaxQueued == 2
MaxWait == 1
MaxAnalyses == 2
MaxSeconds == 3

\* MaxEvents calls bring at most MaxEvents of each.
Hashes == 1..MaxEvents
PathSpecs == 1..MaxEvents

\* DATA_TYPES of the concrete plugin and the data types events arrive with.
DATA_TYPES == {"pe"}
EventDataTypes == {"pe", "fs:stat"}

\* SUPPORTED_HASHES of the concrete analyzer, the kinds a caller may ask for,
\* and the lookup_hash values the analyzer can be constructed with ("" is no
\* lookup hash).
SUPPORTED_HASHES == {"sha256"}
RequestedKinds == {"sha256", "md5"}
ConstructorKinds == {"", "sha256"}

VARIABLES
  \* HashTaggingAnalysisPlugin
  pcMain,                          \* position of the ingestion/report thread
  analyzer_started,                \* _analyzer_started
  event_identifiers_by_path_spec,  \* _event_identifiers_by_path_spec (EventIndex)
  hash_path_specs,                 \* _hash_path_specs (HashIndex)
  hash_queue,                      \* hash_queue: items not yet taken
  unfinished_tasks,                \* hash_queue.unfinished_tasks
  hash_analysis_queue,             \* hash_analysis_queue
  analyzer_alive,                  \* local of _ContinueReportCompilation
  hash_queue_has_tasks,            \* local of _ContinueReportCompilation
  path_specs_per_labels_counter,   \* local of CompileReport
  tags,                            \* local of CompileReport
  report_lines,                    \* lines of the report after the banner
  produced_tags,                   \* tags handed to mediator.ProduceEventTag
  \* HashAnalyzer
  wpc,                             \* position of the worker thread
  abort,                           \* _abort
  hashes_per_batch,
  lookup_hash,
  analyses_performed,
  seconds_spent_analyzing,
  hashes,                          \* local of run / _GetHashes: the batch
  attempts,                        \* iterations of the loop of _GetHashes done
  hash_analyses,                   \* local of run: results still to be put
  \* history
  events,                          \* per ExamineEvent call: what it recorded
  enqueued,                        \* per hash: times put on hash_queue
  handled,                         \* per hash: results handled
  last,                            \* the last _HandleHashAnalysis call
  \* a function that is applied on its own
  call                             \* its arguments and, once returned, result

vars == <<pcMain, analyzer_started, event_identifiers_by_path_spec,
          hash_path_specs, hash_queue, unfinished_tasks, hash_analysis_queue,
          analyzer_alive, hash_queue_has_tasks, path_specs_per_labels_counter,
          tags, report_lines, produced_tags, wpc, abort, hashes_per_batch,
          lookup_hash, analyses_performed, seconds_spent_analyzing, hashes,
          attempts, hash_analyses,
          events, enqueued, handled, last, call>>

mainVars == <<pcMain, analyzer_started, event_identifiers_by_path_spec,
              hash_path_specs, analyzer_alive, hash_queue_has_tasks,
              path_specs_per_labels_counter, tags, report_lines,
              produced_tags, events, enqueued, handled, last, call>>

workerVars == <<hashes_per_batch, analyses_performed,
                seconds_spent_analyzing, hashes, attempts, hash_analyses>>

\* ------------------------------------------------------- dictionaries
\* dict.pop(key) / dict.pop(key, default): the dictionary without key.
DictPop(d, key) == [k \in (DOMAIN d) \ {key} |-> d[k]]

\* d[key] = value.
DictSet(d, key, value) ==
  [k \in (DOMAIN d) \cup {key} |-> IF k = key THEN value ELSE d[k]]

\* defaultdict(list)[key]: the list under key, a new empty list when absent.
DefaultGet(d, key) == IF key \in DOMAIN d THEN d[key] ELSE <<>>

NoLast == [subject_hash |-> None, path_specs |-> <<>>, labels |-> <<>>,
           tags |-> <<>>]

\* ------------------------------------------------------------ the events
\* An event data stream: None (absent) or an object with a path_spec and a
\* sha256_hash attribute; an event data object with data_type, pathspec and
\* sha256_hash. An attribute that is not set reads as None. The analyzer
\* supports the sha256 kind only, so no other hash attribute is ever read.
NoStream == [present |-> FALSE, path_spec |-> None, sha256_hash |-> None]
\* getattr(container, '<kind>_hash', None)
HashAttribute(container, kind) ==
  IF kind = "sha256" THEN container.sha256_hash ELSE None

\* FastReject without the test of the lookup hash.
FastRejectByDataTypeOnly(event_data, kind) ==
  event_data.data_type \notin DATA_TYPES

\* ExamineEvent, lines 115-116: the event is not looked at.
FastReject(event_data, kind) ==
  event_data.data_type \notin DATA_TYPES \/ kind = ""

\* ExamineEvent, lines 121-125: the path specification of the data stream,
\* else the one of the event data.
ResolvePathSpec(event_data_stream, event_data) ==
  IF event_data_stream.path_spec # None THEN event_data_stream.path_spec
  ELSE event_data.pathspec

\* HasPathSpec without the test: the call goes on without path specification.
HasPathSpecAlways(path_specification) == TRUE

\* ExamineEvent, lines 128-129: the call goes on only with a path
\* specification.
HasPathSpec(path_specification) == path_specification # None

\* ExamineEvent, lines 136-141: the lookup hash attribute of the data stream,
\* of the event data when there is no data stream.
ReadLookupHash(event_data_stream, event_data, kind) ==
  IF event_data_stream.present THEN HashAttribute(event_data_stream, kind)
  ELSE HashAttribute(event_data, kind)

\* NeedsLookup without the deduplication: every recorded path specification
\* submits the hash.
NeedsLookupAlways(path_specs) == Len(path_specs) >= 1

\* ExamineEvent, line 154: the hash is looked up when its list of path
\* specifications has just got its first element.
NeedsLookup(path_specs) == Len(path_specs) = 1

\* threading.Thread.is_alive(): started and run() has not ended.
IsAlive == wpc \notin {"unstarted", "dead", "stopped"}

\* No function is applied on its own.
NoCall == [function |-> "none"]

\* __init__ of the plugin and of its analyzer.
Constructed ==
  /\ pcMain = "ingest"
  /\ analyzer_started = FALSE
  /\ event_identifiers_by_path_spec = <<>>
  /\ hash_path_specs = <<>>
  /\ hash_queue = <<>>
  /\ unfinished_tasks = 0
  /\ hash_analysis_queue = <<>>
  /\ analyzer_alive = FALSE
  /\ hash_queue_has_tasks = FALSE
  /\ path_specs_per_labels_counter = <<>>
  /\ tags = <<>>
  /\ report_lines = <<>>
  /\ produced_tags = <<>>
  /\ wpc = "unstarted"
  /\ abort = FALSE
  /\ hashes_per_batch \in 1..MaxBatch
  /\ lookup_hash \in ConstructorKinds
  /\ analyses_performed = 0
  /\ seconds_spent_analyzing = 0
  /\ hashes = <<>>
  /\ attempts = 0
  /\ hash_analyses = <<>>
  /\ events = <<>>
  /\ enqueued = [h \in Hashes |-> 0]
  /\ handled = [h \in Hashes |-> 0]
  /\ last = NoLast

Init == Constructed /\ call = NoCall

\* The path specifications and hash values that the calls made so far read.
SeenPathSpecs ==
  {events[i].path_spec : i \in 1..Len(events)} \ {None}
SeenHashes ==
  {events[i].lookup_hash : i \in 1..Len(events)} \ {None}

\* An event: its data stream (an object or None) and its event data.
Event(stream, data_type, pathspec, sha256_hash) ==
  [event_data_stream |-> stream,
   event_data |-> [data_type |-> data_type, pathspec |-> pathspec,
                   sha256_hash |-> sha256_hash]]
Stream(path_spec, sha256_hash) ==
  [present |-> TRUE, path_spec |-> path_spec, sha256_hash |-> sha256_hash]

\* RequesterNotStarted without the test of the flag: every call starts the
\* thread.
RequesterNotStartedIgnoringFlag(started) == TRUE

\* _EnsureRequesterStarted, line 101: the thread is started only while the
\* flag is not set.
RequesterNotStarted(started) == ~started

\* The inputs of a call, each event sequence once: an attribute that the call
\* does not read is left unset (nothing is read of a rejected event, the
\* pathspec of the event data only when the stream has no path_spec, the hash
\* attribute only when a path specification resolved and then only of the
\* stream or, without stream, of the event data), and a path specification
\* or hash value not read before is the next number.
EventInputs ==
  LET path_specs == 1..(Cardinality(SeenPathSpecs) + 1)
      hash_values == 0..(Cardinality(SeenHashes) + 1)
  IN
  IF lookup_hash = ""
  THEN {Event(NoStream, t, None, None) : t \in EventDataTypes}
  ELSE
    {Event(NoStream, t, None, None) : t \in EventDataTypes}
    \cup {Event(Stream(None, None), "pe", None, None)}
    \cup {Event(Stream(p, h), "pe", None, None) :
            p \in path_specs, h \in hash_values}
    \cup {Event(Stream(None, h), "pe", p, None) :
            p \in path_specs, h \in hash_values}
    \cup {Event(NoStream, "pe", p, h) : p \in path_specs, h \in hash_values}

\* IsSupported without the test: every kind is taken.
IsSupportedAlways(kind) == TRUE

\* HashAnalyzer.SetLookupHash, line 386: the kind is one of SUPPORTED_HASHES.
IsSupported(kind) == kind \in SUPPORTED_HASHES

\* The positions of the main thread between construction and CompileReport:
\* "value_error" when the last call was a SetLookupHash that raised
\* ValueError, else "ingest".
BeforeReport == {"ingest", "value_error"}

\* HashAnalyzer.SetLookupHash through HashTaggingAnalysisPlugin.SetLookupHash,
\* called while the plugin is configured, before the first event. An
\* unsupported kind raises ValueError and sets nothing.
SetLookupHash(kind) ==
  /\ pcMain \in BeforeReport /\ events = <<>>
  /\ IF IsSupported(kind)
     THEN lookup_hash' = kind /\ pcMain' = "ingest"
     ELSE lookup_hash' = lookup_hash /\ pcMain' = "value_error"
  /\ UNCHANGED <<analyzer_started, event_identifiers_by_path_spec,
                 hash_path_specs, analyzer_alive, hash_queue_has_tasks,
                 path_specs_per_labels_counter, tags, report_lines,
                 produced_tags, events, enqueued, handled, last, workerVars,
                 hash_queue, unfinished_tasks, hash_analysis_queue, wpc,
                 abort, call>>

\* ExamineEvent(mediator, event, event_data, event_data_stream); the event's
\* identifier is the number of the call.
ExamineEvent(e) ==
  LET stream == e.event_data_stream
      data == e.event_data
      event_identifier == Len(events) + 1
      rejected == FastReject(data, lookup_hash)
      path_specification ==
        IF rejected THEN None ELSE ResolvePathSpec(stream, data)
      looked_up ==
        IF rejected \/ ~HasPathSpec(path_specification) THEN None
        ELSE ReadLookupHash(stream, data, lookup_hash)
      event_identifiers ==
        Append(DefaultGet(event_identifiers_by_path_spec, path_specification),
               event_identifier)
      path_specs ==
        Append(DefaultGet(hash_path_specs, looked_up), path_specification)
      put == looked_up # None /\ NeedsLookup(path_specs)
  IN
  /\ pcMain \in BeforeReport \cup {"returned", "later"}
  /\ Len(events) < MaxEvents
  /\ pcMain' = IF pcMain \in BeforeReport THEN "ingest" ELSE "later"
  /\ events' = Append(events, [data_type_ok |-> ~rejected,
                               path_spec |-> path_specification,
                               lookup_hash |-> looked_up])
  \* _EnsureRequesterStarted
  /\ analyzer_started' = (analyzer_started \/ ~rejected)
  /\ wpc' = IF ~rejected /\ RequesterNotStarted(analyzer_started)
            THEN "run" ELSE wpc
  /\ event_identifiers_by_path_spec' =
       IF rejected \/ ~HasPathSpec(path_specification)
       THEN event_identifiers_by_path_spec
       ELSE DictSet(event_identifiers_by_path_spec, path_specification,
                    event_identifiers)
  /\ hash_path_specs' =
       IF looked_up = None THEN hash_path_specs
       ELSE DictSet(hash_path_specs, looked_up, path_specs)
  /\ hash_queue' = IF put THEN Append(hash_queue, looked_up) ELSE hash_queue
  /\ unfinished_tasks' = IF put THEN unfinished_tasks + 1 ELSE unfinished_tasks
  /\ enqueued' = IF put THEN [enqueued EXCEPT ![looked_up] = @ + 1]
                 ELSE enqueued
  /\ UNCHANGED <<hash_analysis_queue, analyzer_alive, hash_queue_has_tasks,
                 path_specs_per_labels_counter, tags, report_lines,
                 produced_tags, handled, last, abort, lookup_hash, workerVars, call>>

\* ------------------------------------------------------- the worker thread
\* What a concrete Analyze does with one hash of its batch: no result (the
\* hash is not resolved), a result saying the service does not know the hash,
\* or a result carrying the service's report on that hash.
Outcomes == {"none", "unknown", "known"}

\* hash_information of a result: None when the service does not know the
\* hash, else the report, which is identified by the hash it is about.
HashInformation(hash, outcome) == IF outcome = "known" THEN hash ELSE None

\* Analyze(hashes): HashAnalysis results for the hashes of the batch that got
\* an outcome other than "none", in the order of the batch.
Analyze(batch, outcome) ==
  LET all == [i \in 1..Len(batch) |->
                [subject_hash |-> batch[i],
                 hash_information |-> HashInformation(batch[i], outcome[i]),
                 resolved |-> outcome[i] # "none"]]
      kept == SelectSeq(all, LAMBDA r : r.resolved)
  IN [i \in 1..Len(kept) |->
        [subject_hash |-> kept[i].subject_hash,
         hash_information |-> kept[i].hash_information]]

\* ContinueRunning whatever the flag says.
ContinueRunningAlways(aborted) == TRUE

\* run, line 361: the condition of the while loop.
ContinueRunning(aborted) == ~aborted

\* run, line 361: the abort flag is read at the head of every iteration and a
\* new iteration calls _GetHashes.
RunLoop ==
  /\ wpc = "run"
  /\ IF ContinueRunning(abort)
     THEN wpc' = "get_hashes" /\ hashes' = <<>> /\ attempts' = 0
     ELSE wpc' = "stopped" /\ UNCHANGED <<hashes, attempts>>
  /\ UNCHANGED <<mainVars, hash_queue, unfinished_tasks, hash_analysis_queue,
                 abort, lookup_hash, hashes_per_batch, analyses_performed, seconds_spent_analyzing,
                 hash_analyses>>

\* MoreAttempts with one iteration too many.
MoreAttemptsInclusive(done, max_hashes) == done <= max_hashes

\* _GetHashes, line 337: range(0, max_hashes) has iterations left.
MoreAttempts(done, max_hashes) == done < max_hashes

\* _GetHashes: one iteration of its loop (get_nowait, queue.Empty is passed
\* over); after max_hashes iterations run goes on with the batch, or sleeps
\* EMPTY_QUEUE_WAIT_TIME and starts over when the batch is empty.
GetHashes ==
  /\ wpc = "get_hashes"
  /\ MoreAttempts(attempts, hashes_per_batch)
  /\ attempts' = attempts + 1
  /\ IF hash_queue # <<>>
     THEN /\ hashes' = Append(hashes, Head(hash_queue))
          /\ hash_queue' = Tail(hash_queue)
     ELSE UNCHANGED <<hashes, hash_queue>>
  /\ wpc' = IF MoreAttempts(attempts', hashes_per_batch) THEN "get_hashes"
            ELSE IF hashes' # <<>> THEN "analyze"
            ELSE "run"
  /\ UNCHANGED <<mainVars, unfinished_tasks, hash_analysis_queue, abort,
                 lookup_hash, hashes_per_batch, analyses_performed, seconds_spent_analyzing,
                 hash_analyses>>

\* run, lines 364-367: the seconds between the two readings of time.time()
\* around Analyze. The threads only add them up (no branch of run or of
\* CompileReport reads the sum), so one positive value stands for all.
ElapsedTimes == {1}

\* run, lines 364-367: Analyze returns and the seconds it took are added to
\* seconds_spent_analyzing.
AnalyzeReturns(outcome, elapsed) ==
  /\ wpc = "analyze"
  /\ hash_analyses' = Analyze(hashes, outcome)
  /\ seconds_spent_analyzing' = seconds_spent_analyzing + elapsed
  /\ hashes' = <<>>
  /\ wpc' = "count"
  /\ UNCHANGED <<mainVars, hash_queue, unfinished_tasks, hash_analysis_queue,
                 abort, lookup_hash, hashes_per_batch, analyses_performed,
                 attempts>>

\* run, lines 368 and 372: the batch is counted; an empty list of results
\* leads to the sleep and the next iteration.
CountAnalysis ==
  /\ wpc = "count"
  /\ analyses_performed' = analyses_performed + 1
  /\ wpc' = IF hash_analyses = <<>> THEN "run" ELSE "put"
  /\ UNCHANGED <<mainVars, hash_queue, unfinished_tasks, hash_analysis_queue,
                 abort, lookup_hash, hashes_per_batch,
                 seconds_spent_analyzing, hashes, attempts, hash_analyses>>

\* run, line 365: Analyze raises; nothing in run catches it and the thread
\* ends.
AnalyzeRaises ==
  /\ wpc = "analyze"
  /\ wpc' = "dead"
  /\ hashes' = <<>>
  /\ UNCHANGED <<mainVars, hash_queue, unfinished_tasks, hash_analysis_queue,
                 abort, lookup_hash, hashes_per_batch, analyses_performed, seconds_spent_analyzing,
                 attempts, hash_analyses>>

\* run, line 370: the next result is put on hash_analysis_queue.
PutAnalysis ==
  /\ wpc = "put"
  /\ hash_analysis_queue' = Append(hash_analysis_queue, Head(hash_analyses))
  /\ wpc' = "task_done"
  /\ UNCHANGED <<mainVars, hash_queue, unfinished_tasks, abort, lookup_hash,
                 workerVars>>

\* run, lines 371-372: task_done for the result just put (ValueError, which
\* ends the thread, when no task is unfinished); after the last result the
\* sleep and the next iteration.
TaskDone ==
  /\ wpc = "task_done"
  /\ IF unfinished_tasks = 0
     THEN /\ wpc' = "dead"
          /\ hash_analyses' = <<>>
          /\ UNCHANGED unfinished_tasks
     ELSE /\ unfinished_tasks' = unfinished_tasks - 1
          /\ hash_analyses' = Tail(hash_analyses)
          /\ wpc' = IF hash_analyses' = <<>> THEN "run" ELSE "put"
  /\ UNCHANGED <<mainVars, hash_queue, hash_analysis_queue, abort,
                 lookup_hash, hashes_per_batch, analyses_performed, seconds_spent_analyzing, hashes,
                 attempts>>

\* ------------------------------------------------------- the report thread
\* GenerateLabels of the concrete plugin. Labels are numbered: label 1 is the
\* label every known hash gets, label h + 1 the one given for the report on
\* hash h; a hash the service does not know gets no label.
GenerateLabels(hash_information) ==
  IF hash_information = None THEN <<>>
  ELSE <<hash_information + 1, 1>>

\* EventTags without the test for an empty label list.
EventTagsWithoutLabelTest(event_identifiers, labels) ==
  [i \in 1..Len(event_identifiers) |->
     [event_identifier |-> event_identifiers[i], labels |-> labels]]

\* _HandleHashAnalysis, lines 84-92: the tags for the event identifiers of one
\* path specification, none without labels. The identifiers come from
\* GetIdentifier and the labels from GenerateLabels, so EventTag takes them
\* and the except branch of lines 93-95 is not entered.
EventTags(event_identifiers, labels) ==
  IF labels = <<>> THEN <<>>
  ELSE [i \in 1..Len(event_identifiers) |->
          [event_identifier |-> event_identifiers[i], labels |-> labels]]

\* PopEventIdentifiers with get in place of pop: the list is read and left in
\* the index.
KeepEventIdentifiers(by_path_spec, path_specification) == by_path_spec

\* _HandleHashAnalysis, lines 81-82: the event identifiers of the path
\* specification are popped.
PopEventIdentifiers(by_path_spec, path_specification) ==
  DictPop(by_path_spec, path_specification)

\* _HandleHashAnalysis, lines 80-95: the loop over the path specifications
\* of the hash.
RECURSIVE TagPathSpecs(_, _, _, _)
TagPathSpecs(path_specifications, by_path_spec, labels, new_tags) ==
  IF path_specifications = <<>>
  THEN [event_identifiers_by_path_spec |-> by_path_spec, tags |-> new_tags]
  ELSE LET path_specification == Head(path_specifications)
           event_identifiers == DefaultGet(by_path_spec, path_specification)
       IN TagPathSpecs(Tail(path_specifications),
                       PopEventIdentifiers(by_path_spec, path_specification),
                       labels,
                       new_tags \o EventTags(event_identifiers, labels))

\* _HandleHashAnalysis(hash_analysis): the indexes after the call and what it
\* returns. The caller checks first that subject_hash is a key of
\* _hash_path_specs (pop without default raises KeyError otherwise).
HandleHashAnalysis(hash_analysis) ==
  LET labels == GenerateLabels(hash_analysis.hash_information)
      path_specifications == hash_path_specs[hash_analysis.subject_hash]
      loop == TagPathSpecs(path_specifications,
                           event_identifiers_by_path_spec, labels, <<>>)
  IN [hash_path_specs |-> DictPop(hash_path_specs, hash_analysis.subject_hash),
      event_identifiers_by_path_spec |-> loop.event_identifiers_by_path_spec,
      path_specs |-> path_specifications,
      labels |-> labels,
      tags |-> loop.tags]

\* CompileReport, lines 213-214: every label is counted len(path_specs) times.
RECURSIVE CountLabels(_, _, _)
CountLabels(counter, labels, path_specs) ==
  IF labels = <<>> THEN counter
  ELSE CountLabels(
         DictSet(counter, Head(labels),
                 (IF Head(labels) \in DOMAIN counter
                  THEN counter[Head(labels)] ELSE 0) + Len(path_specs)),
         Tail(labels), path_specs)

\* CompileReport, line 219: sorted(counter.items()), as <<label, count>>.
RECURSIVE SortedItems(_)
SortedItems(counter) ==
  IF DOMAIN counter = {} THEN <<>>
  ELSE LET label == CHOOSE l \in DOMAIN counter :
                      \A m \in DOMAIN counter : l <= m
       IN <<(<<label, counter[label]>>)>> \o SortedItems(DictPop(counter, label))

\* ContinueReportCompilation without the look at the analyzer's liveness.
ContinueWhileTasks(alive, has_tasks, analysis_queue) ==
  has_tasks \/ analysis_queue

\* ContinueReportCompilation without the look at the result queue.
ContinueWhileAnalyzing(alive, has_tasks, analysis_queue) ==
  alive /\ has_tasks

\* _ContinueReportCompilation, line 168.
ContinueReportCompilation(alive, has_tasks, analysis_queue) ==
  (alive /\ has_tasks) \/ analysis_queue

\* CompileReport is called, once, after the events; its loop starts with
\* _ContinueReportCompilation, line 163.
CompileReport ==
  /\ pcMain \in BeforeReport
  /\ pcMain' = "check_alive"
  /\ path_specs_per_labels_counter' = <<>>
  /\ tags' = <<>>
  /\ UNCHANGED <<analyzer_started, event_identifiers_by_path_spec,
                 hash_path_specs, analyzer_alive, hash_queue_has_tasks,
                 report_lines, produced_tags, events, enqueued, handled, last,
                 hash_queue, unfinished_tasks, hash_analysis_queue, wpc,
                 abort, lookup_hash, workerVars, call>>

\* _ContinueReportCompilation, line 163: is_alive() is read.
CheckAlive ==
  /\ pcMain = "check_alive"
  /\ analyzer_alive' = IsAlive
  /\ pcMain' = "check_tasks"
  /\ UNCHANGED <<analyzer_started, event_identifiers_by_path_spec,
                 hash_path_specs, hash_queue_has_tasks,
                 path_specs_per_labels_counter, tags, report_lines,
                 produced_tags, events, enqueued, handled, last,
                 hash_queue, unfinished_tasks, hash_analysis_queue, wpc,
                 abort, lookup_hash, workerVars, call>>

\* _ContinueReportCompilation, line 164: unfinished_tasks is read.
CheckTasks ==
  /\ pcMain = "check_tasks"
  /\ hash_queue_has_tasks' = (unfinished_tasks > 0)
  /\ pcMain' = "check_results"
  /\ UNCHANGED <<analyzer_started, event_identifiers_by_path_spec,
                 hash_path_specs, analyzer_alive,
                 path_specs_per_labels_counter, tags, report_lines,
                 produced_tags, events, enqueued, handled, last,
                 hash_queue, unfinished_tasks, hash_analysis_queue, wpc,
                 abort, lookup_hash, workerVars, call>>

\* _ContinueReportCompilation, lines 165-168, and the test of the while of
\* CompileReport, line 201: the result queue is read and the loop goes on or
\* is left.
CheckResults ==
  /\ pcMain = "check_results"
  /\ pcMain' = IF ContinueReportCompilation(analyzer_alive,
                                            hash_queue_has_tasks,
                                            hash_analysis_queue # <<>>)
               THEN "get" ELSE "signal_abort"
  /\ analyzer_alive' = FALSE
  /\ hash_queue_has_tasks' = FALSE
  /\ UNCHANGED <<analyzer_started, event_identifiers_by_path_spec,
                 hash_path_specs, path_specs_per_labels_counter, tags,
                 report_lines, produced_tags, events, enqueued, handled, last,
                 hash_queue, unfinished_tasks, hash_analysis_queue, wpc,
                 abort, lookup_hash, workerVars, call>>

\* CompileReport, line 203: the loop body begins with
\* _LogProgressUpdateIfReasonable, which, once
\* SECONDS_BETWEEN_STATUS_LOG_MESSAGES have passed, reads analyses_performed
\* and seconds_spent_analyzing of the analyzer through EstimateTimeRemaining
\* (lines 244-250).
LogProgressReadsCounters == pcMain = "get"

\* run, between lines 367 and 368: the seconds of the batch are added, the
\* batch is not yet counted.
CountersHalfUpdated == wpc = "count"

\* QueueGet that leaves the item on the queue.
QueuePeek(items) == [item |-> Head(items), rest |-> items]

\* queue.Queue.get, line 204: the oldest item is taken off the queue.
QueueGet(items) == [item |-> Head(items), rest |-> Tail(items)]

\* CompileReport, lines 202-214: the body of the loop
\* (_LogProgressUpdateIfReasonable only reads and logs). get times out on an
\* empty result queue (queue.Empty, continue); else the result is handled,
\* its tags kept and its labels counted. A result for a hash that is no key
\* of _hash_path_specs raises KeyError out of CompileReport.
GetAnalysis ==
  /\ pcMain = "get"
  /\ IF hash_analysis_queue = <<>>
     THEN /\ pcMain' = "check_alive"
          /\ UNCHANGED <<hash_analysis_queue, hash_path_specs,
                         event_identifiers_by_path_spec, tags,
                         path_specs_per_labels_counter, handled, last>>
     ELSE LET got == QueueGet(hash_analysis_queue)
              hash_analysis == got.item
          IN
          /\ hash_analysis_queue' = got.rest
          /\ IF hash_analysis.subject_hash \notin DOMAIN hash_path_specs
             THEN /\ pcMain' = "raised"
                  /\ UNCHANGED <<hash_path_specs,
                                 event_identifiers_by_path_spec, tags,
                                 path_specs_per_labels_counter, handled, last>>
             ELSE LET r == HandleHashAnalysis(hash_analysis) IN
                  /\ pcMain' = "check_alive"
                  /\ hash_path_specs' = r.hash_path_specs
                  /\ event_identifiers_by_path_spec' =
                       r.event_identifiers_by_path_spec
                  /\ tags' = tags \o r.tags
                  /\ path_specs_per_labels_counter' =
                       CountLabels(path_specs_per_labels_counter, r.labels,
                                   r.path_specs)
                  /\ handled' =
                       [handled EXCEPT ![hash_analysis.subject_hash] = @ + 1]
                  /\ last' = [subject_hash |-> hash_analysis.subject_hash,
                              path_specs |-> r.path_specs,
                              labels |-> r.labels, tags |-> r.tags]
  /\ UNCHANGED <<analyzer_started, analyzer_alive, hash_queue_has_tasks,
                 report_lines, produced_tags, events, enqueued, hash_queue,
                 unfinished_tasks, wpc, abort, lookup_hash, workerVars, call>>

\* CompileReport, line 216: the loop is left and the analyzer told to stop.
SignalAbort ==
  /\ pcMain = "signal_abort"
  /\ abort' = TRUE
  /\ pcMain' = "emit"
  /\ UNCHANGED <<analyzer_started, event_identifiers_by_path_spec,
                 hash_path_specs, analyzer_alive, hash_queue_has_tasks,
                 path_specs_per_labels_counter, tags, report_lines,
                 produced_tags, events, enqueued, handled, last,
                 hash_queue, unfinished_tasks, hash_analysis_queue, wpc,
                 lookup_hash, workerVars, call>>

\* ProduceEventTags handing the tags over last first.
ProduceEventTagsReversed(produced, event_tags) ==
  produced \o [i \in 1..Len(event_tags) |->
                event_tags[Len(event_tags) + 1 - i]]

\* CompileReport, lines 227-228: ProduceEventTag for each tag of the list, in
\* the order of the list.
ProduceEventTags(produced, event_tags) == produced \o event_tags

\* CompileReport, lines 218-233: the lines of the report, the tags handed to
\* the mediator in order, and the return.
EmitReport ==
  /\ pcMain = "emit"
  /\ report_lines' = SortedItems(path_specs_per_labels_counter)
  /\ produced_tags' = ProduceEventTags(produced_tags, tags)
  /\ pcMain' = "returned"
  /\ UNCHANGED <<analyzer_started, event_identifiers_by_path_spec,
                 hash_path_specs, analyzer_alive, hash_queue_has_tasks,
                 path_specs_per_labels_counter, tags, events, enqueued,
                 handled, last, hash_queue, unfinished_tasks,
                 hash_analysis_queue, wpc, abort, lookup_hash, workerVars, call>>

MainStep ==
  \/ \E kind \in RequestedKinds : SetLookupHash(kind)
  \/ \E e \in EventInputs : ExamineEvent(e)
  \/ CompileReport
  \/ CheckAlive
  \/ CheckTasks
  \/ CheckResults
  \/ GetAnalysis
  \/ SignalAbort
  \/ EmitReport

WorkerStep ==
  \/ RunLoop
  \/ GetHashes
  \/ \E outcome \in [1..Len(hashes) -> Outcomes], elapsed \in ElapsedTimes :
       AnalyzeReturns(outcome, elapsed)
  \/ CountAnalysis
  \/ AnalyzeRaises
  \/ PutAnalysis
  \/ TaskDone

Next == MainStep \/ WorkerStep

Spec == Init /\ [][Next]_vars

\* The scheduler runs both threads: a step of the report loop or of the
\* worker that stays possible is eventually taken, and every Analyze call
\* ends. Calling ExamineEvent, SetLookupHash and CompileReport is up to the
\* caller.
ReportStep ==
  \/ CheckAlive
  \/ CheckTasks
  \/ CheckResults
  \/ GetAnalysis
  \/ SignalAbort
  \/ EmitReport

LiveSpec == Init /\ [][Next]_vars /\ WF_vars(ReportStep) /\ WF_vars(WorkerStep)

\* ------------------------------------- Analyze returning too many results
\* A hash value that no event carries.
Unsolicited == MaxEvents + 1

\* run, lines 365-368: a concrete Analyze returns, after the results for its
\* batch, one result more: a second one for a hash of the batch or one for a
\* hash that was never put on hash_queue.
AnalyzeReturnsMore(outcome, elapsed, subject_hash) ==
  /\ wpc = "analyze"
  /\ subject_hash \in {hashes[i] : i \in 1..Len(hashes)} \cup {Unsolicited}
  /\ hash_analyses' =
       Append(Analyze(hashes, outcome),
              [subject_hash |-> subject_hash,
               hash_information |-> HashInformation(subject_hash, "known")])
  /\ seconds_spent_analyzing' = seconds_spent_analyzing + elapsed
  /\ hashes' = <<>>
  /\ wpc' = "count"
  /\ UNCHANGED <<mainVars, hash_queue, unfinished_tasks, hash_analysis_queue,
                 abort, lookup_hash, hashes_per_batch, analyses_performed,
                 attempts>>

MoreResultsStep ==
  \E outcome \in [1..Len(hashes) -> Outcomes], elapsed \in ElapsedTimes,
     subject_hash \in Hashes \cup {Unsolicited} :
    AnalyzeReturnsMore(outcome, elapsed, subject_hash)

MoreResultsNext == Next \/ MoreResultsStep

MoreResultsSpec == Init /\ [][MoreResultsNext]_vars

\* --------------------------------------------------- EstimateTimeRemaining
\* BatchesRemaining counting the batch that is not full as well.
BatchesRemainingAndOne(number_of_hashes, per_batch) ==
  (number_of_hashes \div per_batch) + 1

\* Line 252: the quotient of divmod(number_of_hashes, hashes_per_batch).
BatchesRemaining(number_of_hashes, per_batch) == number_of_hashes \div per_batch

\* AverageAnalysisTime that never divides.
AverageAnalysisTimeRaw(seconds, performed) == seconds

\* Lines 246-250: the seconds spent while no analysis was performed, else the
\* quotient of divmod(seconds_spent_analyzing, analyses_performed).
AverageAnalysisTime(seconds, performed) ==
  IF performed = 0 THEN seconds ELSE seconds \div performed

\* Lines 241-254, as a function of the five values the method reads.
EstimateTimeRemaining(queued, per_batch, wait, performed, seconds) ==
  LET average_analysis_time == AverageAnalysisTime(seconds, performed)
      batches_remaining == BatchesRemaining(queued, per_batch)
      estimated_seconds_per_batch == average_analysis_time + wait
  IN batches_remaining * estimated_seconds_per_batch

\* The values a call of EstimateTimeRemaining reads, hashes_per_batch being
\* the one the analyzer was constructed with.
EstimateInit ==
  /\ Constructed
  /\ \E q \in 0..MaxQueued, w \in 0..MaxWait, n \in 0..MaxAnalyses,
        s \in 0..MaxSeconds :
       call = [function |-> "EstimateTimeRemaining",
               number_of_hashes |-> q,
               wait_time_per_batch |-> w,
               analyses_performed |-> n,
               seconds_spent_analyzing |-> s,
               returned |-> FALSE,
               result |-> 0]

\* The call returns.
CallEstimateTimeRemaining ==
  /\ call.function = "EstimateTimeRemaining"
  /\ ~call.returned
  /\ call' = [call EXCEPT
                !.returned = TRUE,
                !.result = EstimateTimeRemaining(
                             call.number_of_hashes, hashes_per_batch,
                             call.wait_time_per_batch, call.analyses_performed,
                             call.seconds_spent_analyzing)]
  /\ UNCHANGED <<pcMain, analyzer_started, event_identifiers_by_path_spec,
                 hash_path_specs, hash_queue, unfinished_tasks,
                 hash_analysis_queue, analyzer_alive, hash_queue_has_tasks,
                 path_specs_per_labels_counter, tags, report_lines,
                 produced_tags, wpc, abort, lookup_hash, workerVars, events,
                 enqueued, handled, last>>

EstimateNext == CallEstimateTimeRemaining

EstimateSpec == EstimateInit /\ [][EstimateNext]_vars

\* ------------------------------- HTTPHashAnalyzer.MakeRequestAndDecodeJSON
\* The method arguments of the calls, and str.upper() on them.
Methods == {"GET", "get", "Post", "PUT", "delete"}

Upper(method) ==
  CASE method = "GET" -> "GET"
    [] method = "get" -> "GET"
    [] method = "Post" -> "POST"
    [] method = "PUT" -> "PUT"
    [] method = "delete" -> "DELETE"

\* What requests.get() and requests.post() do: a response comes back, or one
\* of the exceptions of requests is raised. ConnectionError stands for itself
\* and its subclasses (ProxyError, SSLError, ConnectTimeout); ReadTimeout and
\* TooManyRedirects are RequestExceptions that are no ConnectionError.
TransportOutcomes ==
  {"response", "requests.ConnectionError", "requests.ReadTimeout",
   "requests.TooManyRedirects"}

\* The status codes of the responses and whether the body is JSON.
StatusCodes == {200, 304, 404, 503}
Bodies == {"json", "not_json"}

\* Response.raise_for_status(), line 439: HTTPError for a 4xx or 5xx status.
RaisesForStatus(status_code) == 400 <= status_code /\ status_code < 600

\* The except clauses of lines 441-449.
CaughtExceptions == {"requests.ConnectionError", "requests.HTTPError"}

\* Lines 428-451: what the call sends, and what it returns or raises.
MakeRequestAndDecodeJSON(method, transport, status_code, body) ==
  LET method_upper == Upper(method)
      raised_in_try ==
        IF transport # "response" THEN transport
        ELSE IF RaisesForStatus(status_code) THEN "requests.HTTPError"
        ELSE "none"
  IN IF method_upper \notin {"GET", "POST"}
     THEN [requests_sent |-> 0, raised |-> "ValueError", json |-> FALSE]
     ELSE IF raised_in_try \in CaughtExceptions
     THEN [requests_sent |-> 1, raised |-> "errors.ConnectionError",
           json |-> FALSE]
     ELSE IF raised_in_try # "none"
     THEN [requests_sent |-> 1, raised |-> raised_in_try, json |-> FALSE]
     ELSE IF body = "json"
     THEN [requests_sent |-> 1, raised |-> "none", json |-> TRUE]
     ELSE [requests_sent |-> 1, raised |-> "requests.JSONDecodeError",
           json |-> FALSE]

\* The arguments of a call and what the HTTP library will do with the
\* request; status code and body are those of a response.
RequestInit ==
  /\ Constructed
  /\ \E method \in Methods, transport \in TransportOutcomes,
        status_code \in StatusCodes, body \in Bodies :
       /\ transport # "response" => (status_code = 200 /\ body = "json")
       /\ call = [function |-> "MakeRequestAndDecodeJSON",
                  method |-> method,
                  transport |-> transport,
                  status_code |-> status_code,
                  body |-> body,
                  returned |-> FALSE,
                  result |-> [requests_sent |-> 0, raised |-> "none",
                              json |-> FALSE]]

\* The call returns or raises.
CallMakeRequestAndDecodeJSON ==
  /\ call.function = "MakeRequestAndDecodeJSON"
  /\ ~call.returned
  /\ call' = [call EXCEPT
                !.returned = TRUE,
                !.result = MakeRequestAndDecodeJSON(
                             call.method, call.transport, call.status_code,
                             call.body)]
  /\ UNCHANGED <<pcMain, analyzer_started, event_identifiers_by_path_spec,
                 hash_path_specs, hash_queue, unfinished_tasks,
                 hash_analysis_queue, analyzer_alive, hash_queue_has_tasks,
                 path_specs_per_labels_counter, tags, report_lines,
                 produced_tags, wpc, abort, lookup_hash, workerVars, events,
                 enqueued, handled, last>>

RequestNext == CallMakeRequestAndDecodeJSON

RequestSpec == RequestInit /\ [][RequestNext]_vars

\* ------------------------------------------------------------- the claims
\* Positions of the report thread inside CompileReport.
InCompileReport == {"check_alive", "check_tasks", "check_results", "get",
                    "signal_abort", "emit"}

Range(seq) == {seq[i] : i \in 1..Len(seq)}
Occurrences(seq, x) == Cardinality({i \in 1..Len(seq) : seq[i] = x})

\* C1: a hash that events carry is put on hash_queue once for every time it
\* becomes a key of HashIndex: while no result for it has been handled it has
\* been put exactly once, however many events and path specifications carry
\* it, and while it is a key of HashIndex it is at most once in hash_queue and
\* the worker's batch together.
C1_Deduplication ==
  \A h \in Hashes :
    /\ enqueued[h] = handled[h] + (IF h \in DOMAIN hash_path_specs THEN 1 ELSE 0)
    /\ (h \in SeenHashes /\ handled[h] = 0) => enqueued[h] = 1
    /\ Occurrences(hash_queue, h) + Occurrences(hashes, h) <= 1

C1_Witness ==
  /\ Len(events) = 2
  /\ events[1].lookup_hash = 1 /\ events[2].lookup_hash = 1
  /\ events[1].path_spec # events[2].path_spec
  /\ enqueued[1] = 1 /\ handled[1] = 1

\* C2 (as claimed): after the result of hash h was handled with a non-empty
\* label list L, every event identifier that ExamineEvent recorded under a
\* path specification listed for h has exactly one tag among the tags of that
\* call, and the tag carries L.
C2_FanOut ==
  (pcMain \in InCompileReport /\ last.subject_hash # None
     /\ last.labels # <<>>) =>
    \A e \in 1..Len(events) :
      events[e].path_spec \in Range(last.path_specs) =>
        /\ Cardinality({i \in 1..Len(last.tags) :
                          last.tags[i].event_identifier = e}) = 1
        /\ \A i \in 1..Len(last.tags) :
             last.tags[i].event_identifier = e =>
               last.tags[i].labels = last.labels

\* C3: after the result of hash h was handled, and as long as CompileReport
\* runs, h is no key of HashIndex and no path specification that was listed
\* under h is a key of EventIndex.
C3_IndexEviction ==
  (pcMain \in InCompileReport /\ last.subject_hash # None) =>
    /\ last.subject_hash \notin DOMAIN hash_path_specs
    /\ \A ps \in Range(last.path_specs) :
         ps \notin DOMAIN event_identifiers_by_path_spec

C3_Witness ==
  /\ pcMain = "check_alive"
  /\ last.subject_hash # None
  /\ Cardinality(Range(last.path_specs)) = 2

\* C4: the step that handles a result for which no labels are generated adds
\* no tag and leaves the per-label counts as they are, and removes the hash
\* from HashIndex and its path specifications from EventIndex.
C4_EmptyLabels ==
  [][(handled' # handled /\ last'.labels = <<>>) =>
       /\ tags' = tags
       /\ last'.tags = <<>>
       /\ path_specs_per_labels_counter' = path_specs_per_labels_counter
       /\ last'.subject_hash \in DOMAIN hash_path_specs
       /\ last'.subject_hash \notin DOMAIN hash_path_specs'
       /\ \A ps \in Range(last'.path_specs) :
            ps \notin DOMAIN event_identifiers_by_path_spec']_vars

C4_Witness ==
  /\ pcMain = "check_alive"
  /\ last.subject_hash # None /\ last.labels = <<>>
  /\ \E e \in 1..Len(events) : events[e].lookup_hash = last.subject_hash
  /\ tags # <<>>

\* C5 (as claimed): when no Analyze call raises (the worker thread does not
\* die), a CompileReport that was called returns, also when Analyze returns
\* results for only some hashes of a batch.
C5_Terminates ==
  [](wpc # "dead") => ((pcMain = "check_alive") ~> (pcMain = "returned"))

\* C6: once the worker thread is dead it stays dead (it is not started
\* again), no error reaches the report thread, and a CompileReport that runs
\* with the worker dead returns, with the result queue drained.
C6_WorkerDeath ==
  /\ [][wpc = "dead" => wpc' = "dead"]_vars
  /\ [](wpc = "dead" => pcMain # "raised")
  /\ [](wpc = "dead" /\ pcMain = "returned" => hash_analysis_queue = <<>>)
  /\ (wpc = "dead" /\ pcMain \in InCompileReport) ~> (pcMain = "returned")

C6_Witness ==
  /\ wpc = "dead" /\ pcMain = "returned"
  /\ analyses_performed = 1 /\ unfinished_tasks = 1
  /\ produced_tags # <<>>

\* C7 (as claimed): when the loop of CompileReport is left, the result queue
\* is empty and the Analyzer thread is not alive (it has stopped, or no
\* qualifying event was seen and it was never started).
C7_ExitOnlyWhenStopped ==
  pcMain = "signal_abort" => (hash_analysis_queue = <<>> /\ ~IsAlive)

\* C7 (amended): when the loop of CompileReport is left, the result queue is
\* empty and either the Analyzer thread is not alive or hash_queue has no
\* unfinished task.
C7_ExitCondition ==
  pcMain = "signal_abort" =>
    (hash_analysis_queue = <<>> /\ (~IsAlive \/ unfinished_tasks = 0))

C7_Witness ==
  /\ pcMain = "signal_abort"
  /\ IsAlive /\ analyzer_started
  /\ \E h \in Hashes : handled[h] = 1

\* C8 (as claimed): when CompileReport returns and every hash that was put on
\* hash_queue got its result handled, HashIndex and EventIndex are empty.
C8_IndexesDrained ==
  (pcMain = "returned" /\ \A h \in Hashes : handled[h] = enqueued[h]) =>
    (hash_path_specs = <<>> /\ event_identifiers_by_path_spec = <<>>)

\* C9 (as claimed): a tag for an event whose ExamineEvent call read hash h
\* carries the labels generated from the report on h, and no other.
C9_OwnHashLabels ==
  \A i \in 1..Len(tags) :
    LET h == events[tags[i].event_identifier].lookup_hash
    IN h # None =>
         tags[i].labels = GenerateLabels(HashInformation(h, "known"))

\* The path specifications of the events tagged with a label.
TaggedPathSpecs(label) ==
  {events[tags[i].event_identifier].path_spec :
     i \in {j \in 1..Len(tags) : label \in Range(tags[j].labels)}}

\* C10 (as claimed): the report has one line per label with a tagged path
\* specification, in the order of the labels, and its count is the number of
\* path specifications tagged with the label, each counted once.
C10_ReportCounts ==
  pcMain = "returned" =>
    /\ \A i \in 1..Len(report_lines) :
         report_lines[i][2] = Cardinality(TaggedPathSpecs(report_lines[i][1]))
    /\ {report_lines[i][1] : i \in 1..Len(report_lines)} =
         {l \in 1..(MaxEvents + 1) : TaggedPathSpecs(l) # {}}
    /\ \A i, j \in 1..Len(report_lines) :
         i < j => report_lines[i][1] < report_lines[j][1]

\* C11: an ExamineEvent call for an event whose data type is not in
\* DATA_TYPES, or made while no lookup hash is set, changes neither index, no
\* queue and not the started flag, and does not start the analyzer thread.
C11_FastReject ==
  [][events' # events => \A e \in EventInputs :
       (ExamineEvent(e)
          /\ (e.event_data.data_type \notin DATA_TYPES \/ lookup_hash = "")) =>
         UNCHANGED <<hash_path_specs, event_identifiers_by_path_spec,
                     hash_queue, unfinished_tasks, hash_analysis_queue,
                     analyzer_started, wpc>>]_vars

C11_Witness ==
  /\ Len(events) = 2
  /\ ~events[1].data_type_ok /\ ~events[2].data_type_ok
  /\ ~analyzer_started /\ wpc = "unstarted"

\* C12: an ExamineEvent call for a qualifying event of which neither the data
\* stream nor the event data has a path specification leaves HashIndex and
\* EventIndex as they are and puts nothing on hash_queue.
C12_NoPathSpec ==
  [][events' # events => \A e \in EventInputs :
       (ExamineEvent(e)
          /\ e.event_data.data_type \in DATA_TYPES /\ lookup_hash # ""
          /\ e.event_data_stream.path_spec = None
          /\ e.event_data.pathspec = None) =>
         UNCHANGED <<hash_path_specs, event_identifiers_by_path_spec,
                     hash_queue, unfinished_tasks>>]_vars

C12_Witness ==
  /\ Len(events) = 2
  /\ events[1].lookup_hash = 1
  /\ events[2].data_type_ok /\ events[2].path_spec = None
  /\ analyzer_started
  /\ DOMAIN hash_path_specs = {1}

\* C13: an event that has a path specification but no lookup hash attribute
\* is skipped: no EventTag is ever made for its event identifier, whatever
\* other events are ingested.
C13_MissingHashSkipped ==
  \A i \in 1..Len(tags) :
    events[tags[i].event_identifier].lookup_hash # None

\* C14: over every sequence of ExamineEvent and CompileReport calls the
\* analyzer thread is started at most once: the first ExamineEvent call that
\* passes the data type and lookup hash test starts it, and no later call
\* starts it again, also not once it was told to abort or has died.
C14_StartedOnce ==
  [][LET examined == events' # events
         passes == events'[Len(events')].data_type_ok
         first == \A i \in 1..Len(events) : ~events[i].data_type_ok
     IN /\ (wpc = "unstarted" /\ wpc' # "unstarted") =>
             (examined /\ passes /\ first /\ wpc' = "run")
        /\ (examined /\ passes /\ first) => (wpc = "unstarted" /\ wpc' = "run")
        /\ (examined /\ wpc # "unstarted") => wpc' = wpc
        /\ wpc # "unstarted" => wpc' # "unstarted"
        /\ wpc \in {"dead", "stopped"} => wpc' = wpc]_vars

C14_Witness ==
  /\ pcMain = "later"
  /\ wpc = "stopped"
  /\ Len(events) = 2
  /\ events[1].data_type_ok /\ events[2].data_type_ok
  /\ events[2].lookup_hash # None

\* C15: CompileReport hands no EventTag to the mediator while the drain loop
\* runs; after the loop it first signals the abort and then calls
\* ProduceEventTag once for every EventTag made during the drain, in the order
\* in which they were made, before it returns.
C15_EmissionOrdering ==
  [][/\ pcMain' \in {"check_alive", "check_tasks", "check_results", "get",
                     "signal_abort", "emit"} => produced_tags' = <<>>
     /\ handled' # handled => tags' = tags \o last'.tags
     /\ tags' # tags => (handled' # handled \/ pcMain \in BeforeReport)
     /\ produced_tags' # produced_tags => (pcMain = "emit" /\ abort)
     /\ (pcMain = "emit" /\ pcMain' # "emit") =>
          (pcMain' = "returned" /\ produced_tags' = tags)]_vars

C15_Witness ==
  /\ pcMain = "returned"
  /\ abort
  /\ Len(produced_tags) = 2
  /\ produced_tags[1] # produced_tags[2]
  /\ produced_tags = tags

\* C16: SetLookupHash with a kind outside SUPPORTED_HASHES raises ValueError
\* and leaves lookup_hash as it was; with a supported kind it sets
\* lookup_hash to the kind and raises nothing; once a call has succeeded
\* lookup_hash is a supported kind, whatever calls follow.
C16_SetLookupHashValidation ==
  [][/\ \A kind \in RequestedKinds :
          SetLookupHash(kind) =>
            IF kind \in SUPPORTED_HASHES
            THEN lookup_hash' = kind /\ pcMain' # "value_error"
            ELSE lookup_hash' = lookup_hash /\ pcMain' = "value_error"
     /\ lookup_hash \in SUPPORTED_HASHES => lookup_hash' \in SUPPORTED_HASHES
     /\ pcMain' = "value_error" =>
          \E kind \in RequestedKinds \ SUPPORTED_HASHES : SetLookupHash(kind)
    ]_vars

C16_Witness ==
  /\ pcMain = "value_error"
  /\ lookup_hash \in SUPPORTED_HASHES
  /\ events = <<>>

\* C17: EstimateTimeRemaining returns 0 whenever hash_queue is empty, for
\* every hashes_per_batch >= 1 and every wait_after_analysis,
\* analyses_performed and seconds_spent_analyzing >= 0.
C17_EstimateFloor ==
  (call.returned /\ call.number_of_hashes = 0) => call.result = 0

C17_Witness ==
  /\ call.returned
  /\ call.number_of_hashes = 0
  /\ call.seconds_spent_analyzing > 0
  /\ call.wait_time_per_batch > 0
  /\ call.result = 0

Max(a, b) == IF a >= b THEN a ELSE b

\* C18 as claimed: EstimateTimeRemaining returns floor(q / b) * (s / max(n, 1)
\* + w), the average s / max(n, 1) being the exact quotient; stated without
\* the division by multiplying both sides by max(n, 1).
C18_ExactAverage ==
  call.returned =>
    call.result * Max(call.analyses_performed, 1) =
      (call.number_of_hashes \div hashes_per_batch)
        * (call.seconds_spent_analyzing
             + call.wait_time_per_batch * Max(call.analyses_performed, 1))

\* C18: EstimateTimeRemaining returns floor(q / b) * (floor(s / max(n, 1)) +
\* w): the average is the whole quotient, the raw s when n = 0, and nothing
\* is divided by zero.
C18_FloorAverage ==
  call.returned =>
    call.result =
      (call.number_of_hashes \div hashes_per_batch)
        * ((call.seconds_spent_analyzing \div Max(call.analyses_performed, 1))
             + call.wait_time_per_batch)

C18_Witness ==
  /\ call.returned
  /\ call.analyses_performed = 2
  /\ call.seconds_spent_analyzing = 3
  /\ call.number_of_hashes = 2
  /\ hashes_per_batch = 1
  /\ call.wait_time_per_batch = 1
  /\ call.result = 4

\* C19: MakeRequestAndDecodeJSON with a method that is not GET or POST,
\* whatever the case of its letters, raises ValueError before a request is
\* sent; for GET and POST a connection failure of the transport or a status
\* outside 2xx raises errors.ConnectionError; and a call ends in nothing but
\* the decoded JSON body, the ValueError or the errors.ConnectionError.
C19_ErrorSurface ==
  call.returned =>
    LET get_or_post == call.method \in {"GET", "get", "Post"}
        response == call.transport = "response"
    IN /\ ~get_or_post =>
            (call.result.raised = "ValueError"
               /\ call.result.requests_sent = 0)
       /\ (get_or_post
             /\ (call.transport = "requests.ConnectionError"
                   \/ (response /\ call.status_code \notin 200..299))) =>
            call.result.raised = "errors.ConnectionError"
       /\ \/ call.result.json /\ call.result.raised = "none"
          \/ ~call.result.json
               /\ call.result.raised \in {"ValueError", "errors.ConnectionError"}

C21_BatchBound ==
  [][/\ wpc' = "analyze" =>
          (1 <= Len(hashes') /\ Len(hashes') <= hashes_per_batch)
     /\ (hashes' # hashes /\ hashes' # <<>>) =>
          (/\ wpc = "get_hashes"
           /\ hash_queue # <<>>
           /\ hashes' = Append(hashes, Head(hash_queue))
           /\ hash_queue' = Tail(hash_queue))
     /\ (wpc = "get_hashes" /\ hash_queue = <<>> /\ attempts' # attempts) =>
          (attempts' = attempts + 1 /\ hashes' = hashes)
     /\ (wpc = "get_hashes" /\ wpc' # "get_hashes" /\ hashes' = <<>>) =>
          (wpc' = "run"
             /\ UNCHANGED <<analyses_performed, seconds_spent_analyzing>>)
     /\ seconds_spent_analyzing' # seconds_spent_analyzing =>
          (wpc = "analyze" /\ hashes # <<>> /\ wpc' = "count")
     /\ analyses_performed' # analyses_performed => wpc = "count"
     /\ wpc' = "count" => wpc \in {"analyze", "count"}]_vars

C21_Witness ==
  /\ wpc = "analyze"
  /\ hashes_per_batch = 2
  /\ hashes = <<1, 2>>
  /\ analyses_performed = 0

\* C22 (as claimed): once SignalAbort has set the abort flag the worker takes
\* no further hash from hash_queue and makes no new Analyze call.
C22_NoBatchAfterAbort ==
  [][abort =>
       (/\ Len(hash_queue') >= Len(hash_queue)
        /\ wpc' = "analyze" => wpc = "analyze")]_vars

\* C22: once the abort flag is set the worker starts no new iteration of its
\* loop: it leaves the loop when it next reads the flag, and once it has
\* stopped it takes no hash and calls Analyze no more. An iteration that read
\* the flag before it was set goes on as without the flag: it takes its
\* batch, Analyze is not interrupted, and its results are put on
\* hash_analysis_queue.
C22_CooperativeAbort ==
  [][/\ (abort /\ wpc' = "get_hashes") => wpc = "get_hashes"
     /\ (abort /\ wpc = "run" /\ wpc' # wpc) => wpc' = "stopped"
     /\ wpc = "stopped" =>
          (wpc' = "stopped" /\ Len(hash_queue') >= Len(hash_queue)
             /\ UNCHANGED <<hashes, hash_analyses, hash_analysis_queue,
                            analyses_performed>>)
     /\ (abort /\ wpc = "analyze" /\ wpc' # wpc) =>
          (\/ wpc' = "dead"
           \/ /\ wpc' = "count"
              /\ \E outcome \in [1..Len(hashes) -> Outcomes] :
                   hash_analyses' = Analyze(hashes, outcome))
     /\ (abort /\ wpc = "count" /\ wpc' # wpc) =>
          (/\ analyses_performed' = analyses_performed + 1
           /\ wpc' = IF hash_analyses = <<>> THEN "run" ELSE "put")
     /\ (abort /\ wpc = "put" /\ wpc' # wpc) =>
          (wpc' = "task_done"
             /\ hash_analysis_queue' =
                  Append(hash_analysis_queue, Head(hash_analyses)))]_vars

C22_Witness ==
  /\ abort
  /\ wpc = "task_done"
  /\ pcMain = "later"
  /\ hash_analysis_queue # <<>>

\* C23: under fair scheduling of both threads, when the analyzer thread was
\* started and no Analyze call raises, the worker leaves its run loop once
\* CompileReport has left its loop and signalled the abort; and it stops for
\* good: the abort flag is never cleared and a stopped thread never runs
\* again.
C23_WorkerShutdown ==
  /\ [][abort => abort']_vars
  /\ [][wpc = "stopped" => wpc' = "stopped"]_vars
  /\ [](wpc # "dead") => ((abort /\ analyzer_started) ~> (wpc = "stopped"))

C23_Witness ==
  /\ wpc = "stopped"
  /\ abort
  /\ pcMain = "returned"
  /\ analyses_performed = 2

\* C24: the two queues are the only state both threads touch, so the report
\* thread never reads state of the worker that is half updated: whenever the
\* loop body of CompileReport runs, and with it the read of analyses_performed
\* and seconds_spent_analyzing, the worker is not between its two writes.
C24_ConfinedToQueues ==
  [][(LogProgressReadsCounters /\ pcMain' # pcMain) =>
       ~CountersHalfUpdated]_vars

\* C25: in every reachable state every path specification that is listed
\* under a key of HashIndex is a key of EventIndex: handling the result of one
\* hash removes no EventIndex entry of a path specification that is still
\* listed under another hash.
C25_IndexLinkage ==
  \A h \in DOMAIN hash_path_specs :
    \A i \in 1..Len(hash_path_specs[h]) :
      hash_path_specs[h][i] \in DOMAIN event_identifiers_by_path_spec

\* C26: when the loop of CompileReport gets a result whose subject hash is no
\* key of HashIndex (a second result for a hash already handled, or a result
\* for a hash never put on hash_queue), handling it makes no EventTag, leaves
\* HashIndex and EventIndex as they are and raises nothing: the loop goes on.
C26_UnsolicitedHarmless ==
  [][(/\ pcMain = "get"
      /\ pcMain' # pcMain
      /\ hash_analysis_queue # <<>>
      /\ Head(hash_analysis_queue).subject_hash \notin DOMAIN hash_path_specs)
       => (/\ pcMain' = "check_alive"
           /\ UNCHANGED <<tags, hash_path_specs,
                          event_identifiers_by_path_spec>>)]_vars

====
